---- MODULE Spec2Model ----
(***************************************************************************)
(* Fact-consistency verification pipeline of CollisionDetection:           *)
(*   - FactConsistencyChecker (src/src/fact_checker.py): check_facts with  *)
(*     its JSON-repair loop, _clean_json_response, _validate_response,     *)
(*     _parse_llm_response;                                                *)
(*   - YandexCloudLLM (src/src/llm_service.py): the tenacity-wrapped       *)
(*     remote calls.                                                       *)
(*                                                                         *)
(* Python values are tagged records [ty, v]. Text is a sequence of         *)
(* characters.            Floats are written in hundredths (0.1 is 10).    *)
(***************************************************************************)
EXTENDS FiniteSets, Integers, Sequences, TLC

(***************************************************************************)
(* Bounds of the model.                                                    *)
(***************************************************************************)
\* longest response body given to _clean_json_response
MaxLen == 4
\* longest inconsistencies / supporting_facts list given to _validate_response
MaxList == 2
\* longest such list in a response returned to check_facts
MaxRespList == 1
\* number of Gateway calls made in a row by one caller
MaxCalls == 2
\* most nodes one retriever returns
MaxCands == 2
\* number of embedding calls started
MaxEmbedCalls == 4
\* number of clear_index requests
MaxClears == 1
\* number of check_contradictions requests
MaxChecks == 2

(***************************************************************************)
(* Python values.                                                          *)
(***************************************************************************)
PyNone == [ty |-> "NoneType", v |-> 0]
PyBool(b) == [ty |-> "bool", v |-> b]
PyInt(n) == [ty |-> "int", v |-> n]
PyFloat(h) == [ty |-> "float", v |-> h]
PyStr(s) == [ty |-> "str", v |-> s]
PyList(l) == [ty |-> "list", v |-> l]
PyDict(d) == [ty |-> "dict", v |-> d]

\* isinstance(x, bool)
IsBool(x) == x.ty = "bool"
\* the type check of confidence left out
IsNumberUnchecked(x) == TRUE

\* isinstance(x, (int, float)): bool is a subclass of int
IsNumber(x) == x.ty \in {"int", "float", "bool"}
\* isinstance(x, list)
IsList(x) == x.ty = "list"
\* isinstance(x, str)
IsStr(x) == x.ty = "str"

\* bool(x)
Truthy(x) ==
    CASE x.ty = "NoneType" -> FALSE
      [] x.ty = "bool" -> x.v
      [] x.ty \in {"int", "float"} -> x.v # 0
      [] x.ty = "str" -> x.v # ""
      [] x.ty = "list" -> Len(x.v) > 0
      [] x.ty = "dict" -> DOMAIN x.v # {}

\* the one model string whose text contains every key name as a substring
KeysText == "has_conflicts inconsistencies supporting_facts confidence explanation statement fact"

\* the types on which the 'in' operator raises TypeError
NotIterable(x) == x.ty \in {"NoneType", "bool", "int", "float"}

\* 'k in x' for a str k and a dict (key), list (element) or str (substring) x
In(k, x) ==
    CASE x.ty = "dict" -> k \in DOMAIN x.v
      [] x.ty = "list" -> \E i \in 1..Len(x.v) : x.v[i] = PyStr(k)
      [] x.ty = "str" -> x.v = k \/ x.v = KeysText
      [] OTHER -> FALSE

(***************************************************************************)
(* Text helpers: str.strip, str.startswith, str.endswith, slicing.         *)
(***************************************************************************)
\* BT stands for the backtick character
BT == "BT"
Fence == <<BT, BT, BT>>
FenceJson == <<BT, BT, BT, "j", "s", "o", "n">>

RECURSIVE LStrip(_)
LStrip(s) == IF s # <<>> /\ Head(s) = " " THEN LStrip(Tail(s)) ELSE s

RECURSIVE RStrip(_)
RStrip(s) ==
    IF s # <<>> /\ s[Len(s)] = " " THEN RStrip(SubSeq(s, 1, Len(s) - 1)) ELSE s

Strip(s) == RStrip(LStrip(s))

StartsWith(s, p) == Len(s) >= Len(p) /\ SubSeq(s, 1, Len(p)) = p

EndsWith(s, p) == Len(s) >= Len(p) /\ SubSeq(s, Len(s) - Len(p) + 1, Len(s)) = p

\* s[n:]
DropFirst(s, n) == SubSeq(s, n + 1, Len(s))

\* s[:-n]
DropLast(s, n) == SubSeq(s, 1, Len(s) - n)

(***************************************************************************)
(* FactConsistencyChecker._clean_json_response                             *)
(***************************************************************************)
\* the opening fence is removed: three backticks and json first, else three backticks
StripPrefix(response) ==
    IF StartsWith(response, FenceJson) THEN DropFirst(response, 7)
    ELSE IF StartsWith(response, Fence) THEN DropFirst(response, 3)
    ELSE response

\* the closing fence left in place
StripSuffixKept(response) == response

\* the closing fence is removed
StripSuffix(response) ==
    IF EndsWith(response, Fence) THEN DropLast(response, 3) ELSE response

CleanJsonResponse(response) == Strip(StripSuffix(StripPrefix(Strip(response))))

(***************************************************************************)
(* FactConsistencyChecker._validate_response                               *)
(*                                                                         *)
(* The result is [exc, msg, response]: the exception raised ("none" when   *)
(* the call returns), str(e), and the response object as the call leaves   *)
(* it (it is normalised in place).                                         *)
(***************************************************************************)
required_fields ==
    <<"has_conflicts", "inconsistencies", "supporting_facts", "confidence", "explanation">>

element_keys == <<"statement", "fact", "explanation">>

Range(s) == {s[i] : i \in 1..Len(s)}

Raise(exc, msg, response) == [exc |-> exc, msg |-> msg, response |-> response]

\* all(k in x for k in keys): "TypeError" when x does not support 'in'
AllIn(keys, x) ==
    IF NotIterable(x) THEN "TypeError"
    ELSE IF \A k \in Range(keys) : In(k, x) THEN "yes" ELSE "no"

\* the loops over the elements of a list: the first element that is not
\* accepted decides the exception
RECURSIVE CheckElements(_)
CheckElements(list) ==
    IF list = <<>> THEN "none"
    ELSE LET r == AllIn(element_keys, Head(list))
         IN  IF r = "TypeError" THEN "TypeError"
             ELSE IF r = "no" THEN "ValueError"
             ELSE CheckElements(Tail(list))

\* inc.get('fact') is truthy
HasFact(inc) == Truthy(inc.v["fact"])

\* [inc for inc in list if inc.get('fact')]; "AttributeError" when an
\* element that passed the key check has no get method
CanFilter(list) == \A i \in 1..Len(list) : list[i].ty = "dict"

\* the filter condition inverted: the entries with an empty fact are kept
LacksFact(inc) == ~HasFact(inc)
FilterFactsInverted(list) == SelectSeq(list, LacksFact)

FilterFacts(list) == SelectSeq(list, HasFact)

\* the flag reset to 0 instead of False
ForceFlagToZero(flag, list) == IF list = <<>> THEN PyInt(0) ELSE flag

\* if not list: flag = False
ForceFlag(flag, list) == IF list = <<>> THEN PyBool(FALSE) ELSE flag

Normalize(response) ==
    LET d == response.v
        inc == d["inconsistencies"].v
        sup == d["supporting_facts"].v
    IN  IF ~CanFilter(inc)
        THEN Raise("AttributeError", "object has no attribute get", response)
        ELSE LET inc2 == FilterFacts(inc)
                 d1 == [d EXCEPT !["inconsistencies"] = PyList(inc2),
                                 !["has_conflicts"] = ForceFlag(@, inc2)]
             IN  IF ~CanFilter(sup)
                 THEN Raise("AttributeError", "object has no attribute get", PyDict(d1))
                 ELSE LET sup2 == FilterFacts(sup)
                          d2 == [d1 EXCEPT !["supporting_facts"] = PyList(sup2),
                                           !["has_supporting_facts"] = ForceFlag(@, sup2)]
                      IN  Raise("none", "", PyDict(d2))

ValidateResponse(response) ==
    LET present == AllIn(required_fields, response)
    IN  IF present = "TypeError"
        THEN Raise("TypeError", "argument is not iterable", response)
        ELSE IF present = "no"
        THEN Raise("ValueError", "missing required fields", response)
        ELSE IF response.ty # "dict"
        THEN Raise("TypeError", "indices must be integers", response)
        ELSE IF ~IsBool(response.v["has_conflicts"])
        THEN Raise("ValueError", "has_conflicts must be boolean", response)
        ELSE IF "has_supporting_facts" \notin DOMAIN response.v
        THEN Raise("KeyError", "has_supporting_facts", response)
        ELSE IF ~IsBool(response.v["has_supporting_facts"])
        THEN Raise("ValueError", "has_supporting_facts must be boolean", response)
        ELSE IF ~IsList(response.v["inconsistencies"])
        THEN Raise("ValueError", "inconsistencies must be a list", response)
        ELSE IF ~IsList(response.v["supporting_facts"])
        THEN Raise("ValueError", "supporting_facts must be a list", response)
        ELSE IF ~IsNumber(response.v["confidence"])
        THEN Raise("ValueError", "confidence must be a number", response)
        ELSE IF ~IsStr(response.v["explanation"])
        THEN Raise("ValueError", "explanation must be a string", response)
        ELSE IF CheckElements(response.v["inconsistencies"].v) # "none"
        THEN Raise(CheckElements(response.v["inconsistencies"].v),
                   "bad element of inconsistencies", response)
        ELSE IF CheckElements(response.v["supporting_facts"].v) # "none"
        THEN Raise(CheckElements(response.v["supporting_facts"].v),
                   "bad element of supporting_facts", response)
        ELSE Normalize(response)

(***************************************************************************)
(* FactConsistencyChecker._parse_llm_response: the FactCheckResult         *)
(***************************************************************************)
ParseLlmResponse(response, facts) ==
    [has_conflicts |-> response.v["has_conflicts"],
     has_supporting_facts |-> response.v["has_supporting_facts"],
     inconsistencies |-> response.v["inconsistencies"],
     supporting_facts |-> response.v["supporting_facts"],
     confidence |-> response.v["confidence"],
     relevant_facts |-> facts,
     explanation |-> response.v["explanation"]]

(***************************************************************************)
(* The responses of the model.                                             *)
(*                                                                         *)
(* A response is [text, doc]: its characters, where the character "D"      *)
(* stands for the serialised JSON document, and the value that document    *)
(* deserialises to.                                                        *)
(***************************************************************************)
Elem(f) == PyDict([statement |-> PyStr("s"), fact |-> PyStr(f), explanation |-> PyStr("e")])

GoodElems == {Elem(""), Elem("f1"), Elem("f2")}

ElemSeqs(n) == UNION {[1..k -> GoodElems] : k \in 0..n}

Confidences == {PyFloat(90), PyFloat(150), PyBool(TRUE)}

Doc(hc, hs, inc, sup, conf) ==
    PyDict([has_conflicts |-> PyBool(hc), has_supporting_facts |-> PyBool(hs),
            inconsistencies |-> PyList(inc), supporting_facts |-> PyList(sup),
            confidence |-> conf, explanation |-> PyStr("e")])

\* the documents that have every field, with the types of the schema
GoodDocs(n) ==
    {Doc(hc, hs, inc, sup, conf) :
        hc \in BOOLEAN, hs \in BOOLEAN, inc \in ElemSeqs(n), sup \in ElemSeqs(n),
        conf \in Confidences}

BaseDoc == Doc(TRUE, TRUE, <<Elem("f1")>>, <<Elem("f2")>>, PyFloat(90))

all_fields ==
    {"has_conflicts", "has_supporting_facts", "inconsistencies", "supporting_facts",
     "confidence", "explanation"}

Without(doc, f) == PyDict([k \in DOMAIN doc.v \ {f} |-> doc.v[k]])

With(doc, f, x) == PyDict([doc.v EXCEPT ![f] = x])

WrongType(f) ==
    CASE f = "has_conflicts" -> PyStr("yes")
      [] f = "has_supporting_facts" -> PyInt(1)
      [] f = "inconsistencies" -> PyNone
      [] f = "supporting_facts" -> PyStr("none")
      [] f = "confidence" -> PyStr("high")
      [] f = "explanation" -> PyNone

BadElems ==
    {PyInt(7), PyNone, PyStr("text"), PyStr(KeysText), PyList(<<>>),
     PyList(<<PyStr("statement"), PyStr("fact"), PyStr("explanation")>>),
     PyDict([statement |-> PyStr("s"), explanation |-> PyStr("e")]),
     PyDict([fact |-> PyStr("f1")])}

NonObjects ==
    {PyNone, PyInt(3), PyBool(TRUE), PyStr("text"), PyStr(KeysText), PyList(<<>>),
     PyList(<<PyStr("has_conflicts"), PyStr("inconsistencies"), PyStr("supporting_facts"),
              PyStr("confidence"), PyStr("explanation")>>)}

BadDocs ==
    {Without(BaseDoc, f) : f \in all_fields}
    \cup {With(BaseDoc, f, WrongType(f)) : f \in all_fields}
    \cup {With(BaseDoc, "inconsistencies", PyList(<<x>>)) : x \in BadElems}
    \cup {With(BaseDoc, "supporting_facts", PyList(<<Elem("f1"), x>>)) : x \in BadElems}
    \cup NonObjects

Plain == <<"D">>
FencedJson == <<BT, BT, BT, "j", "s", "o", "n", " ", "D", " ", BT, BT, BT>>
FencedBare == <<BT, BT, BT, " ", "D", " ", BT, BT, BT>>
\* text that is not JSON
Garbage == {<<>>, <<"{">>, <<"D", "{">>, <<BT, BT, BT, "j", "s", "o", "n", "{", BT, BT, BT>>}

\* the well-formed documents among the responses: every combination of flags
\* and lists, and every confidence
ResponseDocs(n) ==
    {Doc(hc, hs, inc, sup, PyFloat(90)) :
        hc \in BOOLEAN, hs \in BOOLEAN, inc \in ElemSeqs(n), sup \in ElemSeqs(n)}
    \cup {Doc(FALSE, FALSE, <<>>, <<>>, conf) : conf \in Confidences}

Responses ==
    {[text |-> Plain, doc |-> d] : d \in ResponseDocs(MaxRespList) \cup BadDocs}
    \cup {[text |-> t, doc |-> d] : t \in {FencedJson, FencedBare},
                                    d \in {BaseDoc, Without(BaseDoc, "confidence")}}
    \cup {[text |-> t, doc |-> PyNone] : t \in Garbage}

\* json.loads: [exc, msg, value]
JsonLoads(text, doc) ==
    IF text = <<"D">> THEN [exc |-> "none", msg |-> "", value |-> doc]
    ELSE IF text # <<>> /\ Head(text) = "D"
    THEN [exc |-> "JSONDecodeError", msg |-> "Extra data", value |-> PyNone]
    ELSE [exc |-> "JSONDecodeError", msg |-> "Expecting value", value |-> PyNone]

(***************************************************************************)
(* State.                                                                  *)
(***************************************************************************)
VARIABLES
    \* FactConsistencyChecker.check_facts
    pc,              \* position of the call
    config,          \* self.config: <<temperature, max_tokens>>
    prompt_exists,   \* whether the system prompt file of the language can be opened
    relevant_facts,  \* the facts passed to the call
    attempt,         \* loop variable of the repair loop
    llm_response,    \* the raw response last returned by the model
    last_error,      \* str(e) of the exception the loop caught last
    parsed_result,   \* the value json.loads returned last
    request,         \* the analyze_consistency call in flight
    verdict,         \* the FactCheckResult returned
    error,           \* the exception the call ended with
    outcome,         \* history: the exception of the last parse ("none" when it passed)
    nparse,          \* history: parses (clean, json.loads, validate) started
    received,        \* history: whether each response received conforms to the schema
    ncalls,          \* history: analyze_consistency calls issued
    ncorr,           \* history: correction prompts issued
    \* _validate_response applied to one response, then to its own result
    v_pc, v_in, v_out, v_out2,
    \* _clean_json_response applied to a body and to the body in fences
    c_pc, c_body, c_wrapped, c_plain_out, c_wrapped_out,
    \* YandexCloudLLM: one caller of the retried remote calls
    g_pc, g_fn, g_args, g_attempt_number, g_sent, g_result, g_done,
    \* get_retrieved_nodes
    r_pc,            \* position of the call
    r_graph,         \* what LLMSynonymRetriever found
    r_vector,        \* what VectorContextRetriever found
    r_top_n,         \* reranker_top_n
    r_with_reranker, \* with_reranker
    r_retrieved,     \* retrieved_nodes after retriever.retrieve
    r_idx,           \* LLMRerank: start of the next batch
    r_initial,       \* LLMRerank: initial_results
    r_answers,       \* history: the answers of the judge
    r_out,           \* the nodes returned
    r_error,         \* the exception the call ended with
    \* CustomEmbeddingModel and _embeddings_cache
    e_pc,            \* position of each caller
    e_call,          \* the method and text of each caller's call
    e_ret,           \* what each caller's last call returned
    e_cache,         \* _embeddings_cache
    e_running,       \* the caller inside one of the methods
    e_writes,        \* history: stores into the cache, per key
    e_remote,        \* history: embeddings request_emb returned, per key
    e_started,       \* history: calls started
    \* api.py: app_state and the requests
    a_pc,            \* position of each build_index request
    a_i,             \* build_index: number of the file being saved
    a_dir,           \* history: the directory each build_index request made
    a_open,          \* build_index: the directory of the file that is open
    a_saved,         \* history: the <<directory, file>> each request wrote
    a_nodes,         \* build_index: what node_getter read
    a_graph_index,   \* app_state.graph_index
    a_graph_store,   \* app_state.graph_store is set
    a_temp_dir,      \* app_state.temp_dir
    a_fs,            \* the temporary directories
    a_ndirs,         \* directories made so far
    a_live,          \* history: a build succeeded and no clear_index ran since
    a_clears,        \* history: clear_index requests
    k_pc,            \* position of check_contradictions
    k_index,         \* check_contradictions: the index handed to retrieval
    k_last,          \* history: a_live and the decision at the last check
    k_status,        \* HTTP status of the last check_contradictions
    k_n,             \* history: check_contradictions requests
    s_last           \* the last report of get_status

cfVars ==
    <<pc, config, prompt_exists, relevant_facts, attempt, llm_response, last_error,
      parsed_result, request, verdict, error, outcome, nparse, received, ncalls, ncorr>>
valVars == <<v_pc, v_in, v_out, v_out2>>
cleanVars == <<c_pc, c_body, c_wrapped, c_plain_out, c_wrapped_out>>
gwVars == <<g_pc, g_fn, g_args, g_attempt_number, g_sent, g_result, g_done>>
rVars ==
    <<r_pc, r_graph, r_vector, r_top_n, r_with_reranker, r_retrieved, r_idx, r_initial,
      r_answers, r_out, r_error>>
eVars == <<e_pc, e_call, e_ret, e_cache, e_running, e_writes, e_remote, e_started>>
aVars ==
    <<a_pc, a_i, a_dir, a_open, a_saved, a_nodes, a_graph_index, a_graph_store, a_temp_dir,
      a_fs, a_ndirs, a_live, a_clears, k_pc, k_index, k_last, k_status, k_n, s_last>>
vars == <<cfVars, valVars, cleanVars, gwVars, rVars, eVars, aVars>>

NoResponse == [text |-> <<>>, doc |-> PyNone]
NoRequest ==
    [kind |-> "none", facts |-> <<>>, prev |-> NoResponse, err |-> "", temperature |-> 0,
     max_tokens |-> 0]
NoError == [exc |-> "none", detail |-> "", attached |-> {}]
NoResult == Raise("none", "", PyNone)

(***************************************************************************)
(* FactConsistencyChecker.check_facts                                      *)
(***************************************************************************)
max_attempts == 5

\* except (json.JSONDecodeError, ValueError): JSONDecodeError is a ValueError
CaughtByLoop(exc) == exc \in {"JSONDecodeError", "ValueError"}

\* the comparison off by one: a correction is sent after the last attempt too
AttemptsRemainOffByOne(a) == a < max_attempts

\* if attempt < max_attempts - 1
AttemptsRemain(a) == a < max_attempts - 1

\* the schema of section 4.4 of the specification: an object with the six
\* fields, of types boolean, boolean, list, list, number, string, whose list
\* elements are objects holding statement, fact and explanation
IsElement(x) == x.ty = "dict" /\ Range(element_keys) \subseteq DOMAIN x.v

Conforms(doc) ==
    /\ doc.ty = "dict"
    /\ all_fields \subseteq DOMAIN doc.v
    /\ doc.v["has_conflicts"].ty = "bool"
    /\ doc.v["has_supporting_facts"].ty = "bool"
    /\ doc.v["inconsistencies"].ty = "list"
    /\ doc.v["supporting_facts"].ty = "list"
    /\ doc.v["confidence"].ty \in {"int", "float"}
    /\ doc.v["explanation"].ty = "str"
    /\ \A x \in Range(doc.v["inconsistencies"].v) : IsElement(x)
    /\ \A x \in Range(doc.v["supporting_facts"].v) : IsElement(x)

\* a response is valid when its text, without the fences, is one conforming document
ValidResponse(r) == r.text \in {Plain, FencedJson, FencedBare} /\ Conforms(r.doc)

IdleCheckFacts ==
    /\ pc = "Idle" /\ config = <<10, 1000>> /\ prompt_exists = TRUE
    /\ relevant_facts = <<>> /\ attempt = 0 /\ llm_response = NoResponse
    /\ last_error = "" /\ parsed_result = PyNone /\ request = NoRequest
    /\ verdict = PyNone /\ error = NoError /\ outcome = "" /\ nparse = 0 /\ received = <<>>
    /\ ncalls = 0 /\ ncorr = 0

\* the languages a checker is constructed with
Languages == {"en", "ru", "de"}

\* the places a prompt file can be at: prompts/ or the project root
PromptFiles ==
    {<<"prompts", "eng">>, <<"root", "eng">>, <<"prompts", "ru">>, <<"root", "ru">>}

\* line 248: the file name of the language
PromptFilename(language) == IF language = "en" THEN "eng" ELSE "ru"

\* lines 251-256: prompts/ first, the project root when it is not there
PromptPath(language, files) ==
    IF <<"prompts", PromptFilename(language)>> \in files
    THEN <<"prompts", PromptFilename(language)>>
    ELSE <<"root", PromptFilename(language)>>

\* line 258: open() succeeds when the file is there
PromptReadable(language, files) == PromptPath(language, files) \in files

\* api.py lines 314-317 (main.py 116-119): the facts are the texts of the nodes
Facts(nodes) == [i \in 1..Len(nodes) |-> nodes[i].text]

\* the nodes get_retrieved_nodes hands over: none, or two
RetrievedSamples ==
    {<<>>, <<[id |-> 1, text |-> "f1", score |-> 80], [id |-> 2, text |-> "f2", score |-> 50]>>}

InitCheckFacts ==
    /\ pc = "Prompting"
    /\ config \in {<<10, 1000>>, <<70, 500>>}
    /\ prompt_exists \in {PromptReadable(l, fs) : l \in Languages, fs \in SUBSET PromptFiles}
    /\ relevant_facts \in {Facts(nodes) : nodes \in RetrievedSamples}
    /\ attempt = 0 /\ llm_response = NoResponse
    /\ last_error = "" /\ parsed_result = PyNone /\ request = NoRequest
    /\ verdict = PyNone /\ error = NoError /\ outcome = "" /\ nparse = 0 /\ received = <<>>
    /\ ncalls = 0 /\ ncorr = 0

\* the prompt built from the first fact only: an empty list raises IndexError
CreatePromptFirstFact(facts) ==
    IF facts = <<>> THEN [exc |-> "IndexError", bullets |-> <<>>]
    ELSE [exc |-> "none", bullets |-> <<<<"- ", facts[1]>>>>]

\* _create_prompt: one bullet line per fact, joined; an empty list gives
\* an empty block
CreatePrompt(facts) ==
    [exc |-> "none", bullets |-> [i \in 1..Len(facts) |-> <<"- ", facts[i]>>]]

\* a built-in prompt used when the file is missing
GetSystemPromptOrDefault(exists) == [exc |-> "none", detail |-> ""]

\* _get_system_prompt: open() of the prompt file of the language, in
\* prompts/ or else in the project root; it raises when neither exists
GetSystemPrompt(exists) ==
    IF exists THEN [exc |-> "none", detail |-> ""]
    ELSE [exc |-> "FileNotFoundError", detail |-> "system prompt"]

\* lines 68-80: the prompts are built and the first call is issued
Prompting ==
    /\ pc = "Prompting"
    /\ LET p == CreatePrompt(relevant_facts)
           sp == GetSystemPrompt(prompt_exists)
       IN  IF p.exc # "none"
           THEN /\ error' = [exc |-> p.exc, detail |-> "prompt", attached |-> {}]
                /\ pc' = "Failed"
                /\ UNCHANGED <<request, ncalls>>
           ELSE IF sp.exc # "none"
           THEN /\ error' = [exc |-> sp.exc, detail |-> sp.detail, attached |-> {}]
                /\ pc' = "Failed"
                /\ UNCHANGED <<request, ncalls>>
           ELSE /\ request' = [kind |-> "initial", facts |-> p.bullets, prev |-> NoResponse,
                               err |-> "", temperature |-> config[1],
                               max_tokens |-> config[2]]
                /\ ncalls' = ncalls + 1
                /\ pc' = "AwaitingModel"
                /\ error' = error
    /\ UNCHANGED <<config, prompt_exists, relevant_facts, attempt, llm_response, last_error,
                   parsed_result, verdict, outcome, nparse, received, ncorr>>

\* analyze_consistency returns the response of the model
ModelReturns ==
    /\ pc = "AwaitingModel"
    /\ \E r \in Responses :
          /\ llm_response' = r
          /\ received' = Append(received, ValidResponse(r))
    /\ request' = NoRequest
    /\ pc' = "Parsing"
    /\ UNCHANGED <<config, prompt_exists, relevant_facts, attempt, last_error, parsed_result,
                   verdict, error, outcome, nparse, ncalls, ncorr>>

\* analyze_consistency raises: its single attempt failed
\* a failed call handled as one more invalid response
ModelFailsCaught ==
    /\ pc = "AwaitingModel"
    /\ request' = NoRequest
    /\ IF AttemptsRemain(attempt)
       THEN /\ last_error' = "remote call failed"
            /\ pc' = "Correcting"
            /\ error' = error
       ELSE /\ error' = [exc |-> "ValueError", detail |-> "remote call failed",
                         attached |-> {}]
            /\ pc' = "Failed"
            /\ last_error' = last_error
    /\ UNCHANGED <<config, prompt_exists, relevant_facts, attempt, llm_response,
                   parsed_result, verdict, outcome, nparse, received, ncalls, ncorr>>

\* lines 75-80 and 104-109 are outside every except clause but the outer
\* re-raising one (132-134): the Gateway's exception leaves check_facts
ModelFails ==
    /\ pc = "AwaitingModel"
    /\ error' = [exc |-> "RetryError", detail |-> "remote call failed", attached |-> {}]
    /\ request' = NoRequest
    /\ pc' = "Failed"
    /\ UNCHANGED <<config, prompt_exists, relevant_facts, attempt, llm_response, last_error,
                   parsed_result, verdict, outcome, nparse, received, ncalls, ncorr>>

\* lines 86-90 of one iteration: clean, json.loads, _validate_response
ParseAttempt(r) ==
    LET cleaned == CleanJsonResponse(r.text)
        loaded == JsonLoads(cleaned, r.doc)
    IN  IF loaded.exc # "none"
        THEN [exc |-> loaded.exc, msg |-> loaded.msg, loaded |-> FALSE,
              response |-> PyNone, cleaned |-> cleaned]
        ELSE LET res == ValidateResponse(loaded.value)
             IN  [exc |-> res.exc, msg |-> res.msg, loaded |-> TRUE,
                  response |-> res.response, cleaned |-> cleaned]

\* lines 85-119: one iteration of the repair loop up to its break, its
\* correction branch or its raise
Parsing ==
    /\ pc = "Parsing"
    /\ \E p \in {ParseAttempt(llm_response)} :
           /\ outcome' = p.exc
           /\ nparse' = nparse + 1
           /\ parsed_result' = IF p.loaded THEN p.response ELSE parsed_result
           /\ IF p.exc = "none"
              THEN /\ pc' = "Valid"
                   /\ UNCHANGED <<last_error, error>>
              ELSE IF CaughtByLoop(p.exc)
              THEN IF AttemptsRemain(attempt)
                   THEN /\ pc' = "Correcting"
                        /\ last_error' = p.msg
                        /\ error' = error
                   ELSE /\ pc' = "Failed"
                        /\ last_error' = p.msg
                        \* line 119: the message holds str(e); the caught exception is
                        \* chained, and a JSONDecodeError holds the cleaned document
                        /\ error' = [exc |-> "ValueError", detail |-> p.msg,
                                     attached |-> IF p.exc = "JSONDecodeError"
                                                  THEN {p.cleaned} ELSE {}]
              ELSE /\ pc' = "Failed"
                   /\ error' = [exc |-> p.exc, detail |-> p.msg, attached |-> {}]
                   /\ last_error' = last_error
    /\ UNCHANGED <<config, prompt_exists, relevant_facts, attempt, llm_response, request,
                   verdict, received, ncalls, ncorr>>


\* a correction call made with the checker's own temperature and budget
CorrectionRequestFromConfig(response, err, cfg) ==
    [kind |-> "correction", facts |-> <<>>, prev |-> response, err |-> err,
     temperature |-> cfg[1], max_tokens |-> cfg[2]]

\* lines 100-109: the correction prompt holds the response just parsed and
\* str(e); the call is made with temperature 0.1 and max_tokens 1500
CorrectionRequest(response, err, cfg) ==
    [kind |-> "correction", facts |-> <<>>, prev |-> response, err |-> err,
     temperature |-> 10, max_tokens |-> 1500]

\* lines 100-115: the correction prompt is sent, and the loop goes on
Correcting ==
    /\ pc = "Correcting"
    /\ request' = CorrectionRequest(llm_response, last_error, config)
    /\ ncalls' = ncalls + 1
    /\ ncorr' = ncorr + 1
    /\ attempt' = attempt + 1
    \* e is unbound when the except clause is left
    /\ last_error' = ""
    /\ pc' = "AwaitingModel"
    /\ UNCHANGED <<config, prompt_exists, relevant_facts, llm_response,
                   parsed_result, verdict, error, outcome, nparse, received>>

\* lines 123-130: the verdict is built from parsed_result and returned
\* a verdict returned from a response that was not accepted
FinishUnvalidated ==
    /\ pc \in {"Valid", "Correcting"}
    /\ verdict' = IF pc = "Valid" THEN ParseLlmResponse(parsed_result, relevant_facts)
                  ELSE PyNone
    /\ pc' = "Done"
    /\ UNCHANGED <<config, prompt_exists, relevant_facts, attempt, llm_response, last_error,
                   parsed_result, request, error, outcome, nparse, received, ncalls, ncorr>>

\* lines 123-130: the verdict is built from the accepted response and returned
Finish ==
    /\ pc = "Valid"
    /\ verdict' = ParseLlmResponse(parsed_result, relevant_facts)
    /\ pc' = "Done"
    /\ UNCHANGED <<config, prompt_exists, relevant_facts, attempt, llm_response, last_error,
                   parsed_result, request, error, outcome, nparse, received, ncalls, ncorr>>

(***************************************************************************)
(* _validate_response applied to a response, then to its own result        *)
(***************************************************************************)
IdleValidate == v_pc = "Idle" /\ v_in = PyNone /\ v_out = NoResult /\ v_out2 = NoResult

InitValidate ==
    /\ v_pc = "input"
    /\ v_in \in GoodDocs(MaxList) \cup BadDocs
    /\ v_out = NoResult /\ v_out2 = NoResult

ValidateOnce ==
    /\ v_pc = "input"
    /\ v_out' = ValidateResponse(v_in)
    /\ v_pc' = "once"
    /\ UNCHANGED <<v_in, v_out2>>

ValidateAgain ==
    /\ v_pc = "once"
    /\ v_out.exc = "none"
    /\ v_out2' = ValidateResponse(v_out.response)
    /\ v_pc' = "twice"
    /\ UNCHANGED <<v_in, v_out>>

(***************************************************************************)
(* _clean_json_response applied to a body and to the body in code fences   *)
(***************************************************************************)
Chars == {BT, "j", "s", "o", "n", " ", "{"}

Texts(n) == UNION {[1..k -> Chars] : k \in 0..n}

\* the body between an opening fence (with or without the json tag) and a
\* closing fence, set off by sep
Wrap(kind, sep, body) ==
    (IF kind = "json" THEN FenceJson ELSE Fence) \o sep \o body \o sep \o Fence

IdleClean ==
    /\ c_pc = "Idle" /\ c_body = <<>> /\ c_wrapped = <<>>
    /\ c_plain_out = <<>> /\ c_wrapped_out = <<>>

InitClean ==
    /\ c_pc = "input"
    /\ c_body \in Texts(MaxLen)
    /\ c_wrapped = <<>> /\ c_plain_out = <<>> /\ c_wrapped_out = <<>>

CleanBody ==
    /\ c_pc = "input"
    /\ c_plain_out' = CleanJsonResponse(c_body)
    /\ c_pc' = "plain"
    /\ UNCHANGED <<c_body, c_wrapped, c_wrapped_out>>

WrapBody ==
    /\ c_pc = "plain"
    /\ \E kind \in {"json", "bare"}, sep \in {<<>>, <<" ">>} :
          c_wrapped' = [kind |-> kind, sep |-> sep, text |-> Wrap(kind, sep, c_body)]
    /\ c_pc' = "wrapped"
    /\ UNCHANGED <<c_body, c_plain_out, c_wrapped_out>>

CleanWrapped ==
    /\ c_pc = "wrapped"
    /\ c_wrapped_out' = CleanJsonResponse(c_wrapped.text)
    /\ c_pc' = "both"
    /\ UNCHANGED <<c_body, c_wrapped, c_plain_out>>

(***************************************************************************)
(* YandexCloudLLM: the remote calls under tenacity's retry                 *)
(***************************************************************************)
\* the defaults of __init__
self_temperature == PyFloat(10)
self_max_tokens == PyInt(1000)
self_timeout == PyInt(30)

GatewayFunctions == {"analyze_consistency", "request_gpt", "request_gpt_async", "request_emb"}

\* one attempt more before tenacity stops
StopAfterAttemptFour(fn) == IF fn = "analyze_consistency" THEN 1 ELSE 4

\* stop=stop_after_attempt(n) of each decorator
\* every function with the retry budget of 3
StopAfterAttemptUniform(fn) == 3

StopAfterAttempt(fn) == IF fn = "analyze_consistency" THEN 1 ELSE 3

\* a or b
Or(a, b) == IF Truthy(a) THEN a ELSE b

\* the arguments of the remote request one attempt makes
RemoteRequest(fn, args) ==
    IF fn = "request_emb"
    THEN [api |-> "embeddings", temperature |-> PyNone, max_tokens |-> PyNone,
          timeout |-> PyNone]
    ELSE [api |-> "chat", temperature |-> Or(args.temperature, self_temperature),
          max_tokens |-> Or(args.max_tokens, self_max_tokens), timeout |-> self_timeout]

GatewayArgs ==
    [temperature : {PyNone, PyFloat(0), PyFloat(70)},
     max_tokens : {PyNone, PyInt(0), PyInt(1500)}]

NoArgs == [temperature |-> PyNone, max_tokens |-> PyNone]
NoGwResult == [status |-> "none", value |-> ""]
Replies == {"r1", "r2"}

IdleGateway ==
    /\ g_pc = "Idle" /\ g_fn = "none" /\ g_args = NoArgs /\ g_attempt_number = 0
    /\ g_sent = <<>> /\ g_result = NoGwResult /\ g_done = 0

InitGateway ==
    /\ g_pc = "ready" /\ g_fn = "none" /\ g_args = NoArgs /\ g_attempt_number = 0
    /\ g_sent = <<>> /\ g_result = NoGwResult /\ g_done = 0

\* a caller calls one of the decorated methods
GatewayCall ==
    /\ g_pc = "ready"
    /\ g_done < MaxCalls
    /\ \E fn \in GatewayFunctions :
          /\ g_fn' = fn
          /\ g_args' \in IF fn = "request_emb" THEN {NoArgs} ELSE GatewayArgs
    /\ g_attempt_number' = 1
    /\ g_sent' = <<>>
    /\ g_result' = NoGwResult
    /\ g_pc' = "attempting"
    /\ UNCHANGED g_done

\* the remote request of this attempt succeeds: the method returns its result
AttemptSucceeds ==
    /\ g_pc = "attempting"
    /\ \E reply \in Replies :
          /\ g_sent' = Append(g_sent, [request |-> RemoteRequest(g_fn, g_args),
                                       ok |-> TRUE, reply |-> reply])
          /\ g_result' = [status |-> "returned", value |-> reply]
    /\ g_pc' = "ready"
    /\ g_done' = g_done + 1
    /\ UNCHANGED <<g_fn, g_args, g_attempt_number>>

\* the remote request of this attempt fails: tenacity retries unless
\* stop_after_attempt says stop, and then raises RetryError
AttemptFails ==
    /\ g_pc = "attempting"
    /\ g_sent' = Append(g_sent, [request |-> RemoteRequest(g_fn, g_args),
                                 ok |-> FALSE, reply |-> ""])
    /\ IF g_attempt_number >= StopAfterAttempt(g_fn)
       THEN /\ g_result' = [status |-> "raised", value |-> "RetryError"]
            /\ g_pc' = "ready"
            /\ g_done' = g_done + 1
            /\ UNCHANGED g_attempt_number
       ELSE /\ g_attempt_number' = g_attempt_number + 1
            /\ UNCHANGED <<g_result, g_pc, g_done>>
    /\ UNCHANGED <<g_fn, g_args>>

(***************************************************************************)
(* get_retrieved_nodes (api.py, main.py): the two retrievers, the merge of *)
(* their results and the optional rerank by the judge.                     *)
(*                                                                         *)
(* A candidate is [id, text, score]: the source chunk it stands for, the   *)
(* text of the node and its score in hundredths.  index.as_retriever       *)
(* builds a PGRetriever, which concatenates the results of its             *)
(* sub-retrievers in the order given and drops every node whose text was   *)
(* seen before.  LLMRerank asks the judge about batches of                 *)
(* choice_batch_size nodes, gives every chosen node the judge's relevance  *)
(* as its score and returns the top_n of them.                             *)
(***************************************************************************)
FactIds == 1..2
NodeTexts == {"a", "b"}
Scores == {50, 80}
Candidates == [id : FactIds, text : NodeTexts, score : Scores]

\* the results one retriever can give: at most MaxCands nodes of distinct chunks
RetrieverResults ==
    {l \in UNION {[1..n -> Candidates] : n \in 0..MaxCands} :
        \A i, j \in 1..Len(l) : i # j => l[i].id # l[j].id}

\* api.py line 157: choice_batch_size=5
choice_batch_size == 5

\* the values of reranker_top_n
TopNs == 1..2

RECURSIVE Deduplicate(_, _)
\* PGRetriever: the first node of each text is kept
Deduplicate(nodes, seen) ==
    IF nodes = <<>> THEN <<>>
    ELSE IF Head(nodes).text \in seen THEN Deduplicate(Tail(nodes), seen)
    ELSE <<Head(nodes)>> \o Deduplicate(Tail(nodes), seen \cup {Head(nodes).text})

\* api.py line 125: sub_retrievers=[syn, vec]; line 127: retriever.retrieve
RetrieverRetrieve(syn, vec) == Deduplicate(syn \o vec, {})

RECURSIVE InsertByScore(_, _)
InsertByScore(x, sorted) ==
    IF sorted = <<>> THEN <<x>>
    ELSE IF Head(sorted).score >= x.score
         THEN <<Head(sorted)>> \o InsertByScore(x, Tail(sorted))
         ELSE <<x>> \o sorted

RECURSIVE SortedByScore(_)
\* sorted(..., key=score, reverse=True): stable, so the last node is put
\* behind the nodes of equal score that came before it
SortedByScore(nodes) ==
    IF nodes = <<>> THEN <<>>
    ELSE InsertByScore(nodes[Len(nodes)], SortedByScore(SubSeq(nodes, 1, Len(nodes) - 1)))

\* [: top_n]
FirstN(nodes, n) == SubSeq(nodes, 1, IF Len(nodes) < n THEN Len(nodes) ELSE n)

\* the lines of an answer of the judge: "Doc: n, Relevance: r" or something else
Garbage1 == [kind |-> "garbage", num |-> 0, rel |-> 0]
Choice(n, r) == [kind |-> "choice", num |-> n, rel |-> r]
AnswerLines == {Garbage1, Choice(1, 7), Choice(2, 3), Choice(2, 7), Choice(5, 9)}
MaxLines == 2
Answers == UNION {[1..n -> AnswerLines] : n \in 0..MaxLines}

RECURSIVE ParseChoiceSelectAnswer(_, _, _)
\* LLMRerank's parser of the answer: a line that names a document beyond the
\* batch is skipped; a line that is not of the expected form is skipped by
\* the parser that is lenient and raises in the one that is not
ParseChoiceSelectAnswer(lines, num_choices, lenient) ==
    IF lines = <<>> THEN [exc |-> "none", choices |-> <<>>]
    ELSE LET l == Head(lines)
             rest == ParseChoiceSelectAnswer(Tail(lines), num_choices, lenient)
         IN  IF l.kind = "garbage"
             THEN IF lenient THEN rest ELSE [exc |-> "IndexError", choices |-> <<>>]
             ELSE IF rest.exc # "none" THEN rest
             ELSE IF l.num > num_choices THEN rest
             ELSE [exc |-> "none", choices |-> <<l>> \o rest.choices]

\* the chosen nodes of a batch, scored with the judge's relevance
Rescored(batch, choices) ==
    [i \in 1..Len(choices) |->
        [id |-> batch[choices[i].num].id, text |-> batch[choices[i].num].text,
         score |-> 100 * choices[i].rel]]

\* the batch that starts behind position idx
NodesBatch(nodes, idx) ==
    SubSeq(nodes, idx + 1,
           IF idx + choice_batch_size < Len(nodes) THEN idx + choice_batch_size
           ELSE Len(nodes))

IdleRetrieve ==
    /\ r_pc = "Idle" /\ r_graph = <<>> /\ r_vector = <<>> /\ r_top_n = 0
    /\ r_with_reranker = FALSE /\ r_retrieved = <<>> /\ r_idx = 0 /\ r_initial = <<>>
    /\ r_answers = <<>> /\ r_out = <<>> /\ r_error = "none"

InitRetrieve ==
    /\ r_pc = "start"
    /\ r_graph \in RetrieverResults
    /\ r_vector \in RetrieverResults
    /\ r_top_n \in TopNs
    /\ r_with_reranker \in BOOLEAN
    /\ r_retrieved = <<>> /\ r_idx = 0 /\ r_initial = <<>>
    /\ r_answers = <<>> /\ r_out = <<>> /\ r_error = "none"

\* lines 106-129 and 164: the merged results of the two retrievers, returned
\* as they are when with_reranker is false
Retrieve ==
    /\ r_pc = "start"
    /\ r_retrieved' = RetrieverRetrieve(r_graph, r_vector)
    /\ IF r_with_reranker
       THEN /\ r_pc' = "reranking"
            /\ r_out' = r_out
       ELSE /\ r_pc' = "returned"
            /\ r_out' = r_retrieved'
    /\ UNCHANGED <<r_graph, r_vector, r_top_n, r_with_reranker, r_idx, r_initial,
                   r_answers, r_error>>

\* line 162, postprocess_nodes: the judge answers for the next batch
JudgeAnswers ==
    /\ r_pc = "reranking"
    /\ r_idx < Len(r_retrieved)
    /\ \E answer \in Answers, lenient \in BOOLEAN :
          LET batch == NodesBatch(r_retrieved, r_idx)
              parsed == ParseChoiceSelectAnswer(answer, Len(batch), lenient)
          IN  /\ r_answers' = Append(r_answers, answer)
              /\ IF parsed.exc # "none"
                 THEN /\ r_error' = parsed.exc
                      /\ r_pc' = "raised"
                      /\ UNCHANGED <<r_initial, r_idx>>
                 ELSE /\ r_initial' = r_initial \o Rescored(batch, parsed.choices)
                      /\ r_idx' = r_idx + choice_batch_size
                      /\ UNCHANGED <<r_error, r_pc>>
    /\ UNCHANGED <<r_graph, r_vector, r_top_n, r_with_reranker, r_retrieved, r_out>>

\* line 162: the call of the judge fails (request_gpt raises RetryError)
JudgeFails ==
    /\ r_pc = "reranking"
    /\ r_idx < Len(r_retrieved)
    /\ r_error' = "RetryError"
    /\ r_pc' = "raised"
    /\ UNCHANGED <<r_graph, r_vector, r_top_n, r_with_reranker, r_retrieved, r_idx,
                   r_initial, r_answers, r_out>>

\* lines 162-164: every batch is done; the top_n of the chosen nodes by
\* relevance are returned
RerankReturns ==
    /\ r_pc = "reranking"
    /\ r_idx >= Len(r_retrieved)
    /\ r_out' = FirstN(SortedByScore(r_initial), r_top_n)
    /\ r_pc' = "returned"
    /\ UNCHANGED <<r_graph, r_vector, r_top_n, r_with_reranker, r_retrieved, r_idx,
                   r_initial, r_answers, r_error>>

(***************************************************************************)
(* CustomEmbeddingModel (graph_rag.py): the embedding cache of the         *)
(* process.  _get_query_embedding and _get_text_embedding look the text    *)
(* up, ask request_emb when it is not there and store what it returns.     *)
(* Neither method awaits: _aget_query_embedding calls the synchronous      *)
(* method, request_emb blocks, and the callers are coroutines of one event *)
(* loop, so a caller that has started runs until it returns.               *)
(***************************************************************************)
Callers == {"c1", "c2"}
Keys == {"k1", "k2"}
Vectors == {"v1", "v2"}
EmbedMethods == {"_get_query_embedding", "_get_text_embedding"}
NoCall == [method |-> "none", key |-> "none"]

\* a caller runs whenever it is scheduled, whatever another caller is doing
CanRunAlways(c) == TRUE

\* a caller runs when no other caller is inside one of the methods
CanRun(c) == e_running \in {"none", c}

IdleCache ==
    /\ e_pc = [c \in Callers |-> "Idle"]
    /\ e_call = [c \in Callers |-> NoCall]
    /\ e_ret = [c \in Callers |-> "none"]
    /\ e_cache = [k \in Keys |-> "none"]
    /\ e_running = "none"
    /\ e_writes = [k \in Keys |-> 0]
    /\ e_remote = [k \in Keys |-> 0]
    /\ e_started = 0

InitCache ==
    /\ e_pc = [c \in Callers |-> "ready"]
    /\ e_call = [c \in Callers |-> NoCall]
    /\ e_ret = [c \in Callers |-> "none"]
    /\ e_cache = [k \in Keys |-> "none"]
    /\ e_running = "none"
    /\ e_writes = [k \in Keys |-> 0]
    /\ e_remote = [k \in Keys |-> 0]
    /\ e_started = 0

\* lines 24-29 / 37-42: the lookup; a hit returns the entry, a miss goes on
\* to request_emb
GetEmbedding(c) ==
    /\ e_pc[c] = "ready"
    /\ CanRun(c)
    /\ e_started < MaxEmbedCalls
    /\ e_started' = e_started + 1
    /\ \E m \in EmbedMethods, k \in Keys :
          /\ e_call' = [e_call EXCEPT ![c] = [method |-> m, key |-> k]]
          /\ IF e_cache[k] # "none"
             THEN /\ e_ret' = [e_ret EXCEPT ![c] = e_cache[k]]
                  /\ e_running' = "none"
                  /\ e_pc' = e_pc
             ELSE /\ e_ret' = [e_ret EXCEPT ![c] = "none"]
                  /\ e_running' = c
                  /\ e_pc' = [e_pc EXCEPT ![c] = "requesting"]
    /\ UNCHANGED <<e_cache, e_writes, e_remote>>

\* lines 29-31 / 42-44: request_emb returns an embedding, which is stored
\* and returned
RequestEmbReturns(c) ==
    /\ e_pc[c] = "requesting"
    /\ CanRun(c)
    /\ \E v \in Vectors :
          /\ e_cache' = [e_cache EXCEPT ![e_call[c].key] = v]
          /\ e_ret' = [e_ret EXCEPT ![c] = v]
    /\ e_writes' = [e_writes EXCEPT ![e_call[c].key] = @ + 1]
    /\ e_remote' = [e_remote EXCEPT ![e_call[c].key] = @ + 1]
    /\ e_pc' = [e_pc EXCEPT ![c] = "ready"]
    /\ e_running' = "none"
    /\ UNCHANGED <<e_call, e_started>>

\* line 29 / 42: request_emb raises after its attempts; nothing is stored
RequestEmbRaises(c) ==
    /\ e_pc[c] = "requesting"
    /\ CanRun(c)
    /\ e_ret' = [e_ret EXCEPT ![c] = "RetryError"]
    /\ e_pc' = [e_pc EXCEPT ![c] = "ready"]
    /\ e_running' = "none"
    /\ UNCHANGED <<e_call, e_cache, e_writes, e_remote, e_started>>

(***************************************************************************)
(* The HTTP API (api.py): app_state and the endpoints get_status,          *)
(* build_index, check_contradictions and clear_index.  The endpoints are   *)
(* coroutines of one event loop: a request runs until it awaits, and       *)
(* build_index awaits the upload of each file (line 242), with the file    *)
(* already opened in the directory app_state.temp_dir named at that time.  *)
(* The construction of the index and the retrieval run nested event loops  *)
(* (nest_asyncio, line 18), during which other requests can be served.     *)
(* A directory is a number; a_fs tells of each whether it exists and which *)
(* files it holds.                                                         *)
(***************************************************************************)
Builds == {"b1", "b2"}

\* the files uploaded with each build_index request
Uploads == [b \in Builds |-> IF b = "b1" THEN <<"x", "y">> ELSE <<"z">>]

Dirs == 1..Cardinality(Builds)
NoDir == 0
NoIndex == [by |-> "none", dir |-> NoDir, files |-> {}]
NoStatus ==
    [reported |-> FALSE, database_connected |-> FALSE, index_exists |-> FALSE,
     index_set |-> FALSE]
NoCheck == [live |-> FALSE, accepted |-> FALSE]

\* shutil.rmtree(dir, ignore_errors=True)
Rmtree(fs, dir) ==
    IF dir = NoDir THEN fs ELSE [fs EXCEPT ![dir] = [exists |-> FALSE, files |-> {}]]

\* lines 206-213: the report of get_status when the connection check raised
StatusReportFailed(index) ==
    [reported |-> TRUE, database_connected |-> FALSE, index_exists |-> FALSE,
     index_set |-> index # NoIndex]

\* lines 187-205: the report of get_status
StatusReport(index) ==
    [reported |-> TRUE, database_connected |-> TRUE, index_exists |-> index # NoIndex,
     index_set |-> index # NoIndex]

\* clear_index leaving the index in place
IndexAfterClearKept == a_graph_index

\* line 356: app_state.graph_index = None
IndexAfterClear == NoIndex

IdleApi ==
    /\ a_pc = [b \in Builds |-> "Idle"]
    /\ a_i = [b \in Builds |-> 0]
    /\ a_dir = [b \in Builds |-> NoDir]
    /\ a_open = [b \in Builds |-> NoDir]
    /\ a_saved = [b \in Builds |-> {}]
    /\ a_nodes = [b \in Builds |-> NoIndex]
    /\ a_graph_index = NoIndex /\ a_graph_store = FALSE /\ a_temp_dir = NoDir
    /\ a_fs = [d \in Dirs |-> [exists |-> FALSE, files |-> {}]]
    /\ a_ndirs = 0 /\ a_live = FALSE /\ a_clears = 0
    /\ k_pc = "Idle" /\ k_index = NoIndex /\ k_last = NoCheck /\ k_status = 0 /\ k_n = 0
    /\ s_last = NoStatus

\* lines 53-59: app_state after the module is loaded
InitApi ==
    /\ a_pc = [b \in Builds |-> "new"]
    /\ a_i = [b \in Builds |-> 0]
    /\ a_dir = [b \in Builds |-> NoDir]
    /\ a_open = [b \in Builds |-> NoDir]
    /\ a_saved = [b \in Builds |-> {}]
    /\ a_nodes = [b \in Builds |-> NoIndex]
    /\ a_graph_index = NoIndex /\ a_graph_store = FALSE /\ a_temp_dir = NoDir
    /\ a_fs = [d \in Dirs |-> [exists |-> FALSE, files |-> {}]]
    /\ a_ndirs = 0 /\ a_live = FALSE /\ a_clears = 0
    /\ k_pc = "ready" /\ k_index = NoIndex /\ k_last = NoCheck /\ k_status = 0 /\ k_n = 0
    /\ s_last = NoStatus

\* get_status: the connection check succeeds or raises
GetStatus ==
    /\ s_last' \in {StatusReport(a_graph_index), StatusReportFailed(a_graph_index)}
    /\ s_last' # s_last
    /\ UNCHANGED <<a_pc, a_i, a_dir, a_open, a_saved, a_nodes, a_graph_index, a_graph_store,
                   a_temp_dir, a_fs, a_ndirs, a_live, a_clears, k_pc, k_index, k_last,
                   k_status, k_n>>

\* the request ends with HTTP 500 and leaves app_state as it is
EndFailed(b) ==
    /\ a_pc' = [a_pc EXCEPT ![b] = "failed"]
    /\ a_i' = [a_i EXCEPT ![b] = 0]
    /\ a_open' = [a_open EXCEPT ![b] = NoDir]

\* build_index lines 232-242: the old directory is removed, a new one is
\* made, the first file is opened in it and the request awaits its upload
BuildStart(b) ==
    /\ a_pc[b] = "new"
    /\ a_ndirs' = a_ndirs + 1
    /\ a_temp_dir' = a_ndirs'
    /\ a_fs' = [Rmtree(a_fs, a_temp_dir) EXCEPT
                   ![a_ndirs'] = [exists |-> TRUE, files |-> {Uploads[b][1]}]]
    /\ a_dir' = [a_dir EXCEPT ![b] = a_ndirs']
    /\ a_open' = [a_open EXCEPT ![b] = a_ndirs']
    /\ a_i' = [a_i EXCEPT ![b] = 1]
    /\ a_pc' = [a_pc EXCEPT ![b] = "reading"]
    /\ UNCHANGED <<a_saved, a_nodes, a_graph_index, a_graph_store, a_live, a_clears,
                   k_pc, k_index, k_last, k_status, k_n, s_last>>

\* lines 239-242: the path of the next file is made from app_state.temp_dir
\* as it is now, the file is opened there, and the request awaits its upload
OpenNext(b) ==
    /\ IF a_temp_dir = NoDir \/ ~a_fs[a_temp_dir].exists
       THEN \* os.path.join(None, ...) raises TypeError, open() FileNotFoundError
            /\ EndFailed(b)
            /\ UNCHANGED a_fs
       ELSE /\ a_fs' = [a_fs EXCEPT ![a_temp_dir].files = @ \cup {Uploads[b][a_i[b] + 1]}]
            /\ a_open' = [a_open EXCEPT ![b] = a_temp_dir]
            /\ a_i' = [a_i EXCEPT ![b] = @ + 1]
            /\ a_pc' = a_pc
    /\ UNCHANGED <<a_nodes, a_graph_store>>

\* lines 246-260: the graph store is taken, and the documents of the
\* directory app_state.temp_dir names now are read and split into nodes
LoadNodes(b) ==
    /\ \E connected \in {TRUE, a_graph_store} :
          /\ a_graph_store' = connected
          /\ IF ~connected \/ a_temp_dir = NoDir \/ a_fs[a_temp_dir].files = {}
             THEN \* get_graph_store raises, or SimpleDirectoryReader raises ValueError
                  /\ EndFailed(b)
                  /\ UNCHANGED a_nodes
             ELSE /\ a_nodes' = [a_nodes EXCEPT ![b] = [by |-> b, dir |-> a_temp_dir,
                                                        files |-> a_fs[a_temp_dir].files]]
                  /\ a_pc' = [a_pc EXCEPT ![b] = "constructing"]
                  /\ a_i' = [a_i EXCEPT ![b] = 0]
                  /\ a_open' = [a_open EXCEPT ![b] = NoDir]
    /\ UNCHANGED a_fs

\* lines 242-260: the upload has been read; it is written to the open file,
\* and the request goes on to the next file or, after the last one, to the
\* nodes
BuildWrite(b) ==
    /\ a_pc[b] = "reading"
    /\ a_saved' = [a_saved EXCEPT ![b] = @ \cup {<<a_open[b], Uploads[b][a_i[b]]>>}]
    /\ IF a_i[b] < Len(Uploads[b]) THEN OpenNext(b) ELSE LoadNodes(b)
    /\ UNCHANGED <<a_dir, a_graph_index, a_temp_dir, a_ndirs, a_live, a_clears,
                   k_pc, k_index, k_last, k_status, k_n, s_last>>

\* lines 262-277: the index is constructed and stored in app_state
BuildConstruct(b) ==
    /\ a_pc[b] = "constructing"
    /\ a_graph_index' = a_nodes[b]
    /\ a_live' = TRUE
    /\ a_pc' = [a_pc EXCEPT ![b] = "succeeded"]
    /\ UNCHANGED <<a_i, a_dir, a_open, a_saved, a_nodes, a_graph_store, a_temp_dir, a_fs, a_ndirs,
                   a_clears, k_pc, k_index, k_last, k_status, k_n, s_last>>

\* a failed build that drops the index of app_state
BuildRaisesDropsIndex(b) ==
    /\ a_pc[b] \in {"reading", "constructing"}
    /\ EndFailed(b)
    /\ a_graph_index' = NoIndex
    /\ UNCHANGED <<a_dir, a_saved, a_nodes, a_graph_store, a_temp_dir, a_fs,
                   a_ndirs, a_live, a_clears, k_pc, k_index, k_last, k_status, k_n, s_last>>

\* lines 279-281: the upload or the construction of the index raises: HTTP 500
BuildRaises(b) ==
    /\ a_pc[b] \in {"reading", "constructing"}
    /\ EndFailed(b)
    /\ UNCHANGED <<a_dir, a_saved, a_nodes, a_graph_index, a_graph_store, a_temp_dir, a_fs,
                   a_ndirs, a_live, a_clears, k_pc, k_index, k_last, k_status, k_n, s_last>>

\* clear_index, which awaits nothing
ClearIndex ==
    /\ a_clears < MaxClears
    /\ a_clears' = a_clears + 1
    /\ a_graph_index' = IndexAfterClear
    /\ a_fs' = Rmtree(a_fs, a_temp_dir)
    /\ a_temp_dir' = NoDir
    /\ a_live' = FALSE
    /\ UNCHANGED <<a_pc, a_i, a_dir, a_open, a_saved, a_nodes, a_graph_store, a_ndirs,
                   k_pc, k_index, k_last, k_status, k_n, s_last>>

\* check_contradictions lines 295-311: HTTP 400 without an index, or else
\* retrieval starts on the index app_state holds
CheckStart ==
    /\ k_pc = "ready"
    /\ k_n < MaxChecks
    /\ k_n' = k_n + 1
    /\ k_last' = [live |-> a_live, accepted |-> a_graph_index # NoIndex]
    /\ IF a_graph_index = NoIndex
       THEN /\ k_status' = 400
            /\ UNCHANGED <<k_pc, k_index>>
       ELSE /\ k_index' = a_graph_index
            /\ k_pc' = "retrieving"
            /\ k_status' = 0
    /\ UNCHANGED <<a_pc, a_i, a_dir, a_open, a_saved, a_nodes, a_graph_index, a_graph_store,
                   a_temp_dir, a_fs, a_ndirs, a_live, a_clears, s_last>>

\* lines 304-348: retrieval and check_facts return (200) or raise (500)
CheckFinish ==
    /\ k_pc = "retrieving"
    /\ k_status' \in {200, 500}
    /\ k_pc' = "ready"
    /\ k_index' = NoIndex
    /\ UNCHANGED <<a_pc, a_i, a_dir, a_open, a_saved, a_nodes, a_graph_index, a_graph_store,
                   a_temp_dir, a_fs, a_ndirs, a_live, a_clears, k_last, k_n, s_last>>

(***************************************************************************)
(* Specifications.                                                         *)
(***************************************************************************)
\* one call of check_facts
Init ==
    /\ InitCheckFacts /\ IdleValidate /\ IdleClean /\ IdleGateway
    /\ IdleRetrieve /\ IdleCache /\ IdleApi

Next ==
    \/ (Prompting /\ UNCHANGED <<valVars, cleanVars, gwVars, rVars, eVars, aVars>>)
    \/ (ModelReturns /\ UNCHANGED <<valVars, cleanVars, gwVars, rVars, eVars, aVars>>)
    \/ (ModelFails /\ UNCHANGED <<valVars, cleanVars, gwVars, rVars, eVars, aVars>>)
    \/ (Parsing /\ UNCHANGED <<valVars, cleanVars, gwVars, rVars, eVars, aVars>>)
    \/ (Correcting /\ UNCHANGED <<valVars, cleanVars, gwVars, rVars, eVars, aVars>>)
    \/ (Finish /\ UNCHANGED <<valVars, cleanVars, gwVars, rVars, eVars, aVars>>)

Spec == Init /\ [][Next]_vars

\* the positions of a call of check_facts
Positions ==
    {"Prompting", "AwaitingModel", "Parsing", "Valid", "Correcting", "Done", "Failed"}

\* the call takes its next step: every action above is guarded by the
\* position alone and moves it, and only Done and Failed have no action
Advance == pc \in Positions \ {"Done", "Failed"} /\ pc' \in Positions /\ pc' # pc

\* one call of check_facts whose steps are taken: the code runs on, and every
\* call of the Gateway returns or raises
SpecLive == Init /\ [][Next]_vars /\ WF_pc(Advance)

\* _validate_response on every response of the bounded universe
InitV ==
    /\ IdleCheckFacts /\ InitValidate /\ IdleClean /\ IdleGateway
    /\ IdleRetrieve /\ IdleCache /\ IdleApi

NextV ==
    \/ (ValidateOnce /\ UNCHANGED <<cfVars, cleanVars, gwVars, rVars, eVars, aVars>>)
    \/ (ValidateAgain /\ UNCHANGED <<cfVars, cleanVars, gwVars, rVars, eVars, aVars>>)

SpecValidate == InitV /\ [][NextV]_vars

\* _clean_json_response on every body of the bounded universe
InitC ==
    /\ IdleCheckFacts /\ IdleValidate /\ InitClean /\ IdleGateway
    /\ IdleRetrieve /\ IdleCache /\ IdleApi

NextC ==
    \/ (CleanBody /\ UNCHANGED <<cfVars, valVars, gwVars, rVars, eVars, aVars>>)
    \/ (WrapBody /\ UNCHANGED <<cfVars, valVars, gwVars, rVars, eVars, aVars>>)
    \/ (CleanWrapped /\ UNCHANGED <<cfVars, valVars, gwVars, rVars, eVars, aVars>>)

SpecClean == InitC /\ [][NextC]_vars

\* a caller of the Gateway
InitG ==
    /\ IdleCheckFacts /\ IdleValidate /\ IdleClean /\ InitGateway
    /\ IdleRetrieve /\ IdleCache /\ IdleApi

NextG ==
    \/ (GatewayCall /\ UNCHANGED <<cfVars, valVars, cleanVars, rVars, eVars, aVars>>)
    \/ (AttemptSucceeds /\ UNCHANGED <<cfVars, valVars, cleanVars, rVars, eVars, aVars>>)
    \/ (AttemptFails /\ UNCHANGED <<cfVars, valVars, cleanVars, rVars, eVars, aVars>>)

SpecGateway == InitG /\ [][NextG]_vars

\* one call of get_retrieved_nodes
InitR ==
    /\ IdleCheckFacts /\ IdleValidate /\ IdleClean /\ IdleGateway
    /\ InitRetrieve /\ IdleCache /\ IdleApi

NextR ==
    \/ (Retrieve /\ UNCHANGED <<cfVars, valVars, cleanVars, gwVars, eVars, aVars>>)
    \/ (JudgeAnswers /\ UNCHANGED <<cfVars, valVars, cleanVars, gwVars, eVars, aVars>>)
    \/ (JudgeFails /\ UNCHANGED <<cfVars, valVars, cleanVars, gwVars, eVars, aVars>>)
    \/ (RerankReturns /\ UNCHANGED <<cfVars, valVars, cleanVars, gwVars, eVars, aVars>>)

SpecRetrieve == InitR /\ [][NextR]_vars

\* the callers of the embedding model
InitE ==
    /\ IdleCheckFacts /\ IdleValidate /\ IdleClean /\ IdleGateway
    /\ IdleRetrieve /\ InitCache /\ IdleApi

NextE ==
    \/ \E c \in Callers :
          GetEmbedding(c) /\ UNCHANGED <<cfVars, valVars, cleanVars, gwVars, rVars, aVars>>
    \/ \E c \in Callers :
          RequestEmbReturns(c) /\ UNCHANGED <<cfVars, valVars, cleanVars, gwVars, rVars, aVars>>
    \/ \E c \in Callers :
          RequestEmbRaises(c) /\ UNCHANGED <<cfVars, valVars, cleanVars, gwVars, rVars, aVars>>

SpecCache == InitE /\ [][NextE]_vars

\* the requests the server handles
InitA ==
    /\ IdleCheckFacts /\ IdleValidate /\ IdleClean /\ IdleGateway
    /\ IdleRetrieve /\ IdleCache /\ InitApi

otherVars == <<cfVars, valVars, cleanVars, gwVars, rVars, eVars>>

NextA ==
    \/ (GetStatus /\ UNCHANGED otherVars)
    \/ \E b \in Builds : BuildStart(b) /\ UNCHANGED otherVars
    \/ \E b \in Builds : BuildWrite(b) /\ UNCHANGED otherVars
    \/ \E b \in Builds : BuildConstruct(b) /\ UNCHANGED otherVars
    \/ \E b \in Builds : BuildRaises(b) /\ UNCHANGED otherVars
    \/ (ClearIndex /\ UNCHANGED otherVars)
    \/ (CheckStart /\ UNCHANGED otherVars)
    \/ (CheckFinish /\ UNCHANGED otherVars)

SpecApi == InitA /\ [][NextA]_vars

(***************************************************************************)
(* Properties.                                                             *)
(***************************************************************************)
\* the entries whose fact field is not empty, in their order
RECURSIVE KeptEntries(_)
KeptEntries(list) ==
    IF list = <<>> THEN <<>>
    ELSE IF Head(list).v["fact"] = PyStr("") THEN KeptEntries(Tail(list))
    ELSE <<Head(list)>> \o KeptEntries(Tail(list))

\* the checks of _validate_response, stated on the document
PassesEveryCheck(doc) ==
    /\ doc.ty = "dict"
    /\ all_fields \subseteq DOMAIN doc.v
    /\ doc.v["has_conflicts"].ty = "bool"
    /\ doc.v["has_supporting_facts"].ty = "bool"
    /\ doc.v["inconsistencies"].ty = "list"
    /\ doc.v["supporting_facts"].ty = "list"
    /\ doc.v["confidence"].ty \in {"int", "float", "bool"}
    /\ doc.v["explanation"].ty = "str"
    /\ \A x \in Range(doc.v["inconsistencies"].v) : IsElement(x)
    /\ \A x \in Range(doc.v["supporting_facts"].v) : IsElement(x)

\* the text is one JSON document, bare or in code fences
LoadsAsJson(r) == r.text \in {Plain, FencedJson, FencedBare}

\* the call ended because a Gateway call or the prompt file failed
EndedOutsideLoop == error.exc \in {"RetryError", "FileNotFoundError"}

\* the response in llm_response has been through its parse
ParsedCurrent == nparse = Len(received) /\ nparse >= 1

\* C1: a check_facts call parses at most 5 times and calls the model at most
\* 5 times (one initial call and at most 4 corrections); after the 5th failed
\* parse the call has failed, and no correction is issued.
C1_AtMostFiveAttempts ==
    /\ nparse <= 5
    /\ ncalls <= 5
    /\ ncorr <= 4
    /\ ncalls <= 1 + ncorr
    /\ (nparse = 5 /\ outcome # "none" => pc = "Failed")

C1_Witness == nparse = 5 /\ ncalls = 5 /\ ncorr = 4 /\ outcome = "ValueError" /\ pc = "Failed"

\* C2: for every k in 0..4, when the first k responses are invalid and
\* response k+1 is valid, check_facts succeeds with the verdict of response
\* k+1 after exactly k correction prompts. Stated on the states of a call: a
\* call that has received k+1 such responses and ended has succeeded that
\* way, and a call that has received only invalid responses, fewer than 5,
\* has not ended on them (it goes on to ask for the next response).
C2_RecoversWithinFiveAttempts ==
    \A k \in 0..4 :
        /\ (/\ Len(received) = k + 1
            /\ \A i \in 1..k : ~received[i]
            /\ received[k + 1]
            /\ pc \in {"Done", "Failed"})
           => /\ pc = "Done"
              /\ verdict = ParseLlmResponse(ValidateResponse(llm_response.doc).response,
                                            relevant_facts)
              /\ ncorr = k
        /\ (/\ k >= 1
            /\ Len(received) = k
            /\ \A i \in 1..k : ~received[i]
            /\ pc = "Failed")
           => EndedOutsideLoop

\* C3: when all 5 attempts yield an invalid response, the call fails with
\* the error of line 119, which carries the last raw response and the
\* detail of the last parse or validation error.
C3_FailureCarriesRawResponse ==
    (nparse = 5 /\ outcome # "none" /\ pc = "Failed")
    => /\ error.exc = "ValueError"
       /\ error.detail = last_error
       /\ llm_response.text \in error.attached

\* C4: in every verdict returned, has_conflicts is true exactly when
\* inconsistencies is not empty, and has_supporting_facts is true exactly
\* when supporting_facts is not empty.
C4_FlagsMatchLists ==
    pc = "Done"
    => /\ verdict.has_conflicts.v <=> (verdict.inconsistencies.v # <<>>)
       /\ verdict.has_supporting_facts.v <=> (verdict.supporting_facts.v # <<>>)

\* C5: a parsed response that lacks one of the six required fields is
\* reported as a schema violation (the ValueError the loop catches) and,
\* while attempts remain, leads to a correction.
LacksOneField(r) ==
    /\ LoadsAsJson(r)
    /\ r.doc.ty = "dict"
    /\ \E f \in all_fields : DOMAIN r.doc.v = all_fields \ {f}

C5_MissingFieldIsSchemaViolation ==
    (LacksOneField(llm_response) /\ ParsedCurrent /\ pc \in {"Correcting", "Failed"}
        /\ ~EndedOutsideLoop)
    => /\ outcome = "ValueError"
       /\ (nparse < 5 => pc = "Correcting")

\* C6: after _validate_response of a structurally valid response, each list
\* holds exactly the original entries whose fact is not empty, in their
\* original order, and the flag of a list that is left empty is false.
C6_FilterKeepsNonEmptyFacts ==
    (v_pc \in {"once", "twice"} /\ Conforms(v_in))
    => /\ v_out.exc = "none"
       /\ v_out.response.v["inconsistencies"].v = KeptEntries(v_in.v["inconsistencies"].v)
       /\ v_out.response.v["supporting_facts"].v = KeptEntries(v_in.v["supporting_facts"].v)
       /\ (v_out.response.v["inconsistencies"].v = <<>>
              => v_out.response.v["has_conflicts"] = PyBool(FALSE))
       /\ (v_out.response.v["supporting_facts"].v = <<>>
              => v_out.response.v["has_supporting_facts"] = PyBool(FALSE))

C6_Witness ==
    /\ v_pc = "once" /\ Conforms(v_in)
    /\ v_in.v["inconsistencies"].v = <<Elem("f2"), Elem("")>>
    /\ v_out.response.v["inconsistencies"].v = <<Elem("f2")>>
    /\ v_in.v["supporting_facts"].v = <<Elem("")>>
    /\ v_in.v["has_supporting_facts"] = PyBool(TRUE)
    /\ v_out.response.v["has_supporting_facts"] = PyBool(FALSE)

\* C7: a verdict is returned only by a call that is Done, and it is built
\* from the response parsed last, which loaded as JSON and passed every
\* check of _validate_response in that attempt; a call that failed returns
\* no verdict and ends with an error.
C7_NoPartiallyValidVerdict ==
    /\ (verdict # PyNone => pc = "Done")
    /\ (pc = "Done"
        => /\ error = NoError
           /\ ParsedCurrent /\ outcome = "none"
           /\ LoadsAsJson(llm_response)
           /\ PassesEveryCheck(llm_response.doc)
           /\ verdict.confidence = llm_response.doc.v["confidence"]
           /\ verdict.explanation = llm_response.doc.v["explanation"]
           /\ verdict.inconsistencies.v = KeptEntries(llm_response.doc.v["inconsistencies"].v)
           /\ verdict.supporting_facts.v = KeptEntries(llm_response.doc.v["supporting_facts"].v)
           /\ verdict.relevant_facts = relevant_facts)
    /\ (pc = "Failed" => verdict = PyNone /\ error.exc # "none")

C7_Witness ==
    /\ pc = "Done" /\ ncorr = 2 /\ llm_response.text = FencedJson
    /\ verdict.inconsistencies.v = <<Elem("f1")>>

\* C8: on a valid response without empty fact fields, a second
\* _validate_response raises nothing and leaves the response equal to the
\* result of the first.
NoEmptyFacts(doc) ==
    /\ \A x \in Range(doc.v["inconsistencies"].v) : x.v["fact"] # PyStr("")
    /\ \A x \in Range(doc.v["supporting_facts"].v) : x.v["fact"] # PyStr("")

C8_ValidateIdempotent ==
    (v_pc = "twice" /\ Conforms(v_in) /\ NoEmptyFacts(v_in))
    => /\ v_out.exc = "none"
       /\ v_out2.exc = "none"
       /\ v_out2.response = v_out.response

C8_Witness ==
    /\ v_pc = "twice" /\ Conforms(v_in) /\ NoEmptyFacts(v_in)
    /\ v_in.v["has_conflicts"] = PyBool(TRUE)
    /\ v_in.v["inconsistencies"].v = <<>>
    /\ v_in.v["supporting_facts"].v = <<Elem("f1"), Elem("f2")>>
    /\ v_out.response # v_in
    /\ v_out2.response = v_out.response

\* C9 as stated: for every body, cleaning the body in code fences gives the
\* same string as cleaning the body alone.
C9_FencesNeverMatter == c_pc = "both" => c_wrapped_out = c_plain_out

\* the body, stripped of whitespace, neither begins nor ends with a fence
\* of its own, and does not turn a bare fence it touches into a json fence
FenceFree(body, w) ==
    /\ ~StartsWith(Strip(body), Fence)
    /\ ~EndsWith(Strip(body), Fence)
    /\ ~(w.kind = "bare" /\ w.sep = <<>> /\ StartsWith(body, <<"j", "s", "o", "n">>))

\* C9 (amended): for every body that, stripped of whitespace, neither begins
\* nor ends with three backticks (and that does not begin with json right
\* after a bare opening fence), cleaning the body in code fences gives the
\* same string as cleaning the body alone.
C9_FencesDoNotMatter ==
    (c_pc = "both" /\ FenceFree(c_body, c_wrapped)) => c_wrapped_out = c_plain_out

C9_Witness ==
    /\ c_pc = "both" /\ FenceFree(c_body, c_wrapped)
    /\ c_wrapped.kind = "json"
    /\ c_body = <<" ", "{", BT, "{">>
    /\ c_wrapped_out = <<"{", BT, "{">>

\* C10: request_gpt, request_gpt_async and request_emb make at most 3 remote
\* attempts; no attempt follows a successful one, whose result is returned;
\* after 3 failed attempts there is no 4th and the call raises.
C10_AtMostThreeAttempts ==
    g_fn \in {"request_gpt", "request_gpt_async", "request_emb"}
    => LET n == Len(g_sent)
       IN  /\ n <= 3
           /\ \A i \in 1..(n - 1) : ~g_sent[i].ok
           /\ (g_result.status = "returned"
                  => n >= 1 /\ g_sent[n].ok /\ g_result.value = g_sent[n].reply)
           /\ (g_result.status = "raised" => n = 3 /\ ~g_sent[3].ok)
           /\ (n >= 1 /\ g_sent[n].ok => g_result.status = "returned" /\ g_pc = "ready")
           /\ (n = 3 /\ ~g_sent[3].ok => g_result.status = "raised" /\ g_pc = "ready")

C10_Witness ==
    /\ g_fn = "request_gpt_async" /\ Len(g_sent) = 3 /\ g_result.status = "raised"
    /\ g_done = 2

\* C11: analyze_consistency makes exactly one remote attempt per call: a
\* failed attempt is not retried and the call raises; a successful one is
\* returned.
C11_AnalyzeConsistencySingleAttempt ==
    g_fn = "analyze_consistency"
    => LET n == Len(g_sent)
       IN  /\ n <= 1
           /\ (g_pc = "ready" => n = 1 /\ g_result.status # "none")
           /\ (n = 1 /\ ~g_sent[1].ok => g_result.status = "raised" /\ g_pc = "ready")
           /\ (n = 1 /\ g_sent[1].ok
                 => /\ g_result.status = "returned" /\ g_pc = "ready"
                    /\ g_result.value = g_sent[1].reply)

C11_Witness ==
    /\ g_fn = "analyze_consistency" /\ Len(g_sent) = 1 /\ ~g_sent[1].ok
    /\ g_result.status = "raised" /\ g_pc = "ready"

\* C12: a call to the model that fails, the initial one or a correction,
\* ends check_facts at once with the Gateway's failure: no verdict, and no
\* call after the failed one.
C12_GatewayFailureEndsCheck ==
    /\ (pc # "AwaitingModel" /\ ncalls > Len(received))
          => /\ pc = "Failed" /\ error.exc = "RetryError"
             /\ verdict = PyNone /\ request = NoRequest
             /\ ncalls = Len(received) + 1
             /\ nparse = Len(received)
    /\ (error.exc = "RetryError" => pc = "Failed" /\ ncalls = Len(received) + 1)

C12_Witness ==
    /\ pc = "Failed" /\ error.exc = "RetryError" /\ ncorr = 2 /\ ncalls = 3
    /\ Len(received) = 2 /\ verdict = PyNone

\* C13: every remote request the Gateway sends carries the configured
\* timeout.
C13_EveryRequestCarriesTimeout ==
    \A i \in 1..Len(g_sent) : g_sent[i].request.timeout = self_timeout

NoConflictNoSupport(doc) ==
    /\ Conforms(doc)
    /\ doc.v["has_conflicts"] = PyBool(FALSE)
    /\ doc.v["has_supporting_facts"] = PyBool(FALSE)
    /\ doc.v["inconsistencies"] = PyList(<<>>)
    /\ doc.v["supporting_facts"] = PyList(<<>>)

\* C17: with no facts retrieved check_facts still sends the model its
\* request, built from an empty fact list, and a valid response that reports
\* no conflict and no support yields a verdict with both flags false and no
\* entries.
C17_EmptyFactsStillChecked ==
    (relevant_facts = <<>> /\ prompt_exists)
    => /\ (pc # "Prompting" => ncalls >= 1)
       /\ (request.kind = "initial" => request.facts = <<>>)
       /\ (Len(received) >= 1 /\ ParsedCurrent /\ NoConflictNoSupport(llm_response.doc)
             /\ pc \notin {"Parsing"}
             => pc \in {"Valid", "Done"})
       /\ (pc = "Done" /\ NoConflictNoSupport(llm_response.doc)
             => /\ verdict.has_conflicts = PyBool(FALSE)
                /\ verdict.has_supporting_facts = PyBool(FALSE)
                /\ verdict.inconsistencies = PyList(<<>>)
                /\ verdict.supporting_facts = PyList(<<>>)
                /\ verdict.relevant_facts = <<>>)

C17_Witness ==
    /\ relevant_facts = <<>> /\ pc = "Done" /\ ncalls = 1
    /\ NoConflictNoSupport(llm_response.doc)
    /\ verdict.has_conflicts = PyBool(FALSE)
    /\ verdict.has_supporting_facts = PyBool(FALSE)

\* C19: when the system-prompt file of the language cannot be read,
\* check_facts fails with the file error before any call to the model: no
\* call, no response, no verdict, no default prompt.
C19_MissingPromptFailsBeforeAnyCall ==
    /\ (~prompt_exists /\ pc # "Prompting")
          => /\ pc = "Failed" /\ error.exc = "FileNotFoundError"
             /\ ncalls = 0 /\ ncorr = 0 /\ nparse = 0 /\ received = <<>>
             /\ request = NoRequest /\ verdict = PyNone
    /\ (error.exc = "FileNotFoundError" => ~prompt_exists /\ ncalls = 0)

C19_Witness ==
    /\ ~prompt_exists /\ pc = "Failed" /\ error.exc = "FileNotFoundError"
    /\ ncalls = 0 /\ verdict = PyNone

\* a number in hundredths
Hundredths(x) ==
    IF x.ty = "bool" THEN (IF x.v THEN 100 ELSE 0)
    ELSE IF x.ty = "int" THEN 100 * x.v
    ELSE x.v

\* C20: the confidence of a verdict lies within [0, 1].
C20_ConfidenceWithinUnitInterval ==
    pc = "Done"
    => /\ verdict.confidence.ty \in {"bool", "int", "float"}
       /\ Hundredths(verdict.confidence) >= 0
       /\ Hundredths(verdict.confidence) <= 100

\* the top n of the nodes by their own score
TopByOwnScore(nodes, n) == FirstN(SortedByScore(nodes), n)

\* C14: without the reranker get_retrieved_nodes returns at most
\* reranker_top_n nodes, the top ones of the merged set by score.
C14_NoRerankTruncatesToTopN ==
    (r_pc = "returned" /\ ~r_with_reranker)
    => /\ Len(r_out) <= r_top_n
       /\ r_out = TopByOwnScore(r_retrieved, r_top_n)

\* the judge answered, and nothing it said could be read
JudgeUnparsable ==
    /\ r_answers # <<>>
    /\ \A i \in 1..Len(r_answers) :
          \A j \in 1..Len(r_answers[i]) : r_answers[i][j].kind = "garbage"

\* C15: with the reranker and more merged nodes than reranker_top_n, at most
\* reranker_top_n nodes are returned, and when nothing of the judge's answer
\* can be read the top reranker_top_n by their original score are returned,
\* never nothing.
C15_RerankFallsBackToOriginalScore ==
    (r_with_reranker /\ r_pc \in {"returned", "raised"} /\ Len(r_retrieved) > r_top_n)
    => /\ (r_pc = "returned" => Len(r_out) <= r_top_n)
       /\ (JudgeUnparsable
             => /\ r_pc = "returned"
                /\ r_out # <<>>
                /\ r_out = TopByOwnScore(r_retrieved, r_top_n))

\* C16: a chunk found by both retrievers is in the merged set once, with the
\* score the vector retriever gave it.
C16_MergedOnceWithVectorScore ==
    r_pc # "start"
    => \A i \in 1..Len(r_graph), j \in 1..Len(r_vector) :
          r_graph[i].id = r_vector[j].id
          => /\ Cardinality({m \in 1..Len(r_retrieved) :
                                r_retrieved[m].id = r_vector[j].id}) = 1
             /\ \A m \in 1..Len(r_retrieved) :
                   r_retrieved[m].id = r_vector[j].id
                   => r_retrieved[m].score = r_vector[j].score

\* C18: for every text at most one embedding is obtained from request_emb
\* and stored: an entry of the cache is written once, whatever the order in
\* which the callers run.
C18_CacheWrittenOncePerKey ==
    \A k \in Keys :
       /\ e_writes[k] <= 1
       /\ e_remote[k] <= 1
       /\ (e_cache[k] # "none" <=> e_writes[k] = 1)
       /\ \A c \in Callers :
             (e_pc[c] = "requesting" /\ e_call[c].key = k) => e_cache[k] = "none"

C18_Witness ==
    /\ e_started = 3 /\ e_writes["k1"] = 1 /\ e_cache["k1"] = "v1"
    /\ e_call["c1"].key = "k1" /\ e_call["c2"].key = "k1"
    /\ e_ret["c1"] = "v1" /\ e_ret["c2"] = "v1"
    /\ e_call["c1"].method # e_call["c2"].method

\* the types _validate_response is to require of the six fields
HasFieldTypes(doc) ==
    /\ doc.ty = "dict"
    /\ all_fields \subseteq DOMAIN doc.v
    /\ doc.v["has_conflicts"].ty = "bool"
    /\ doc.v["has_supporting_facts"].ty = "bool"
    /\ doc.v["inconsistencies"].ty = "list"
    /\ doc.v["supporting_facts"].ty = "list"
    /\ doc.v["confidence"].ty \in {"int", "float"}
    /\ doc.v["explanation"].ty = "str"

\* C21: _validate_response accepts a response only if the two flags are
\* booleans, the two lists are lists, confidence is a number and explanation
\* is a string; a response whose confidence is true or false is rejected
\* with the ValueError of a schema violation.
C21_AcceptedOnlyWellTyped ==
    v_pc # "input"
    => /\ (v_out.exc = "none" => HasFieldTypes(v_in))
       /\ ((v_in.ty = "dict" /\ all_fields \subseteq DOMAIN v_in.v
              /\ v_in.v["confidence"].ty = "bool")
             => v_out.exc = "ValueError")

\* a document whose only defect is an element of one of its lists
HasBadElement(doc) ==
    /\ HasFieldTypes(doc)
    /\ \E f \in {"inconsistencies", "supporting_facts"} :
          \E x \in Range(doc.v[f].v) : ~IsElement(x)

\* C22: a parsed response with an element of inconsistencies or
\* supporting_facts that is not an object holding statement, fact and
\* explanation raises the ValueError the repair loop catches: the call goes
\* on to a correction or, at the last attempt, fails with the error of the
\* loop, never with another error.
C22_BadElementIsSchemaViolation ==
    (ParsedCurrent /\ pc # "Parsing" /\ LoadsAsJson(llm_response)
       /\ HasBadElement(llm_response.doc))
    => /\ outcome = "ValueError"
       /\ (pc = "Failed" => error.exc \in {"ValueError", "RetryError"})

\* C23: a response that is JSON but not an object raises the ValueError the
\* repair loop catches: the call goes on to a correction or, at the last
\* attempt, fails with the error of the loop, never with another error.
C23_NonObjectIsSchemaViolation ==
    (ParsedCurrent /\ pc # "Parsing" /\ LoadsAsJson(llm_response)
       /\ llm_response.doc.ty # "dict")
    => /\ outcome = "ValueError"
       /\ (pc = "Failed" => error.exc \in {"ValueError", "RetryError"})

\* C24: the i-th correction call holds the i-th response received, the one
\* parsed last, as it was received, and the error text of its parse; it is
\* made with temperature 0.1 and max_tokens 1500 whatever self.config is.
C24_CorrectionHoldsLastResponseAndError ==
    request.kind = "correction"
    => /\ pc = "AwaitingModel"
       /\ Len(received) = ncorr /\ nparse = ncorr
       /\ request.prev = llm_response
       /\ request.err = ParseAttempt(llm_response).msg
       /\ request.err # ""
       /\ ParseAttempt(request.prev).exc \in {"JSONDecodeError", "ValueError"}
       /\ request.temperature = 10
       /\ request.max_tokens = 1500

C24_Witness ==
    /\ request.kind = "correction" /\ ncorr = 3 /\ config = <<70, 500>>
    /\ request.prev.text = FencedJson /\ request.temperature = 10

\* C26: a completion call sends the temperature and max_tokens its caller
\* passed, whatever their value, and the defaults of the service only for a
\* parameter the caller left out.
C26_SuppliedParametersAreSent ==
    \A i \in 1..Len(g_sent) :
       g_sent[i].request.api = "chat"
       => /\ g_sent[i].request.temperature =
                IF g_args.temperature = PyNone THEN self_temperature
                ELSE g_args.temperature
          /\ g_sent[i].request.max_tokens =
                IF g_args.max_tokens = PyNone THEN self_max_tokens
                ELSE g_args.max_tokens

\* the steps of the life cycle of a call
LifeCycleStep ==
    /\ pc \notin {"Done", "Failed"}
    /\ (pc = "Prompting" => pc' \in {"AwaitingModel", "Failed"})
    /\ (pc = "AwaitingModel" => pc' \in {"Parsing", "Failed"})
    /\ (pc = "Parsing" => pc' \in {"Valid", "Correcting", "Failed"})
    /\ (pc = "Valid" => pc' = "Done")
    /\ (pc = "Correcting" => pc' = "AwaitingModel")
    /\ (pc' = "Correcting"
          => /\ pc = "Parsing"
             /\ outcome' \in {"JSONDecodeError", "ValueError"}
             /\ attempt + 1 < max_attempts)
    /\ (pc' = "Parsing" => pc = "AwaitingModel")
    /\ (pc' = "Done" => pc = "Valid" /\ outcome = "none")

C27_CheckNeedsLiveIndex ==
    /\ (a_graph_index # NoIndex <=> a_live)
    /\ (k_n > 0 => k_last.accepted = k_last.live)
    /\ (k_pc = "retrieving" => k_last.live /\ k_index # NoIndex /\ k_status # 400)
    /\ (k_status = 400 => k_pc = "ready" /\ ~k_last.live /\ k_index = NoIndex)
    /\ (k_status \in {200, 500} => k_last.live)

C27_Witness ==
    /\ k_n = 2 /\ k_status = 400 /\ a_clears = 1 /\ ~a_live
    /\ \E b \in Builds : a_pc[b] = "succeeded"

\* C28: what a build_index request saves and indexes are the files uploaded
\* with it, all written into the directory it made, which is the directory
\* read when the index is built.
C28_BuildIndexesItsOwnFiles ==
    \A b \in Builds :
       a_pc[b] \in {"constructing", "succeeded"}
       => /\ a_nodes[b].files = Range(Uploads[b])
          /\ a_nodes[b].dir = a_dir[b]
          /\ a_saved[b] = {<<a_dir[b], Uploads[b][i]>> : i \in 1..Len(Uploads[b])}

\* a step of request b
StepOf(b) == a_pc'[b] # a_pc[b] \/ a_i'[b] # a_i[b]

\* C29: no step of a build_index request but the last one of a successful
\* build changes app_state.graph_index: a build that fails leaves the index
\* as it was, and an index built before stays in place.
C29_FailedBuildKeepsIndex ==
    [][\A b \in Builds :
          (StepOf(b) /\ a_pc'[b] # "succeeded") => a_graph_index' = a_graph_index]_vars

C29_Witness ==
    /\ a_pc["b2"] = "failed" /\ a_pc["b1"] = "succeeded" /\ a_dir["b2"] > a_dir["b1"]
    /\ a_dir["b1"] > NoDir /\ a_graph_index.by = "b1" /\ a_clears = 0

\* C30: the index_exists get_status reports is whether app_state.graph_index
\* is set, also when the connection check fails.
C30_StatusReportsIndex ==
    s_last.reported => s_last.index_exists = s_last.index_set

====
